---- MODULE Spec2Model ----
(***************************************************************************)
(* Model of the IRIS project preparation script                            *)
(* (src/1_run_after_copy_images.py) and of the mask harvest script         *)
(* (src/2_run_after_edit.py).                                              *)
(*                                                                         *)
(* The file system is a function from physical paths (sequences of names,  *)
(* relative to the working directory) to nodes: a directory, a regular     *)
(* file with its content, or a symbolic link with its target.  An          *)
(* operation that can fail yields a record [f, exc]: the file system after *)
(* it and the name of the exception raised ("none" when it returned).      *)
(* Python lists are 0-based; sequences here are 1-based, so every index is *)
(* the Python index plus one.                                              *)
(***************************************************************************)
EXTENDS Integers, Sequences, FiniteSets, TLC

VARIABLES fs, fs0, pc, exc, heap, base_cfg, cfg, classes, class_colors,
          ids, idx, run_lines, IDS, ok, missing

vars == <<fs, fs0, pc, exc, heap, base_cfg, cfg, classes, class_colors,
          ids, idx, run_lines, IDS, ok, missing>>

(***************************************************************************)
(* Bounds of the model.                                                    *)
(***************************************************************************)
MaxH == 1
MaxW == 2
MaxK == 3
MaxScenes == 2
MaxIds == 3

(***************************************************************************)
(* Configuration constants of the scripts.                                 *)
(***************************************************************************)
BASE_JSON == <<"base.json">>
IMAGES_ROOT == <<"spot", "images">>
MASK_TIF_NAME == "f_1dpwseg.tif"
OVERWRITE_JSON == TRUE
SPOT_ROOT == <<"spot">>
OUTPUT_DIR == <<"save_mask">>

(***************************************************************************)
(* File system: pathlib / os semantics (CPython 3.11 on Linux).            *)
(***************************************************************************)
NoNode == [k |-> "none"]
DirNode == [k |-> "dir"]
FileNode(d) == [k |-> "file", d |-> d]
\* A symbolic link to the place t: its target text is absolute, or (rel)
\* the shortest relative path from the link's directory.
LinkNode(t) == [k |-> "link", to |-> t]
RelLinkNode(t) == [k |-> "link", to |-> t, rel |-> TRUE]

\* The working directory itself is a directory.
Node(f, p) == IF p = <<>> THEN DirNode ELSE IF p \in DOMAIN f THEN f[p] ELSE NoNode

Parent(p) == SubSeq(p, 1, Len(p) - 1)

Ok(f) == [f |-> f, exc |-> "none"]
Raise(f, e) == [f |-> f, exc |-> e]

\* The OSError subclass Python raises for an errno.
OSError(errno) ==
    IF errno = "ENOENT" THEN "FileNotFoundError"
    ELSE IF errno = "ENOTDIR" THEN "NotADirectoryError"
    ELSE IF errno = "EEXIST" THEN "FileExistsError"
    ELSE IF errno = "EISDIR" THEN "IsADirectoryError"
    ELSE "OSError"

\* The kernel's path walk (stat / lstat): the physical path a path names.
\* Every link met before the last component is followed, the last one only
\* when followLast.  A missing component before the last is ENOENT, a regular
\* file there is ENOTDIR, and after `fuel` links the next link is ELOOP.
RECURSIVE Walk(_, _, _, _, _)
Walk(f, cur, rest, followLast, fuel) ==
    IF rest = <<>> THEN [err |-> "none", p |-> cur]
    ELSE LET cand == Append(cur, Head(rest))
             n == Node(f, cand)
         IN IF n.k = "link" /\ (Len(rest) > 1 \/ followLast)
            THEN IF fuel = 0 THEN [err |-> "ELOOP", p |-> cand \o Tail(rest)]
                 ELSE Walk(f, <<>>, n.to \o Tail(rest), followLast, fuel - 1)
            ELSE IF Len(rest) > 1 /\ n.k = "none"
                 THEN [err |-> "ENOENT", p |-> cand \o Tail(rest)]
            ELSE IF Len(rest) > 1 /\ n.k = "file"
                 THEN [err |-> "ENOTDIR", p |-> cand \o Tail(rest)]
            ELSE Walk(f, cand, Tail(rest), followLast, fuel)

\* Linux follows at most 40 links in one walk.
Canon(f, p, followLast) == Walk(f, <<>>, p, followLast, 40)

\* Path.exists(), Path.is_symlink(), Path.is_dir(): a walk that fails with
\* ENOENT, ENOTDIR or ELOOP answers False.
Exists(f, p) ==
    LET r == Canon(f, p, TRUE) IN r.err = "none" /\ Node(f, r.p).k # "none"
IsSymlink(f, p) ==
    LET r == Canon(f, p, FALSE) IN r.err = "none" /\ Node(f, r.p).k = "link"
IsDir(f, p) ==
    LET r == Canon(f, p, TRUE) IN r.err = "none" /\ Node(f, r.p).k = "dir"
IsFile(f, p) ==
    LET r == Canon(f, p, TRUE) IN r.err = "none" /\ Node(f, r.p).k = "file"

\* Path.unlink(): removes the directory entry itself, never a link's target;
\* a directory is EISDIR, a missing entry ENOENT.
Unlink(f, p) ==
    LET r == Canon(f, p, FALSE)
    IN IF r.err # "none" THEN Raise(f, OSError(r.err))
       ELSE IF Node(f, r.p).k = "none" THEN Raise(f, "FileNotFoundError")
       ELSE IF Node(f, r.p).k = "dir" THEN Raise(f, "IsADirectoryError")
       ELSE Ok([x \in DOMAIN f \ {r.p} |-> f[x]])

\* os.mkdir(p): the last component is not followed and must not exist.
os_mkdir(f, p) ==
    LET r == Canon(f, p, FALSE)
    IN IF r.err # "none" THEN Raise(f, OSError(r.err))
       ELSE IF Node(f, r.p).k # "none" THEN Raise(f, "FileExistsError")
       ELSE Ok((r.p :> DirNode) @@ f)

\* exist_ok=True: an OSError of os.mkdir (r is what it did) other than
\* FileNotFoundError passes when the path is a directory.
ExistOk(f, p, r) ==
    IF r.exc = "none" \/ r.exc = "FileNotFoundError" THEN r
    ELSE IF IsDir(f, p) THEN Ok(f) ELSE r

\* Path.mkdir(parents=False, exist_ok=True)
MkdirExistOk(f, p) == ExistOk(f, p, os_mkdir(f, p))

\* self.mkdir(parents=False, exist_ok=True) after self.parent.mkdir(...) (r)
MkdirAfterParents(r, p) == IF r.exc # "none" THEN r ELSE MkdirExistOk(r.f, p)

\* Path.mkdir(parents=True, exist_ok=True), r being what os.mkdir(p) did: on
\* FileNotFoundError the parents are made and the mkdir is tried again.
RECURSIVE Mkdirs(_, _)
MkdirsFrom(f, p, r) ==
    IF r.exc = "FileNotFoundError" /\ p # <<>>
    THEN MkdirAfterParents(Mkdirs(f, Parent(p)), p)
    ELSE ExistOk(f, p, r)

Mkdirs(f, p) == MkdirsFrom(f, p, os_mkdir(f, p))

\* open(p, "w") + write (np.save, Image.save, write_text alike): the file the
\* path names (through links) gets content d; a directory is EISDIR.
WriteFile(f, p, d) ==
    LET r == Canon(f, p, TRUE)
    IN IF r.err # "none" THEN Raise(f, OSError(r.err))
       ELSE IF Node(f, r.p).k = "dir" THEN Raise(f, "IsADirectoryError")
       ELSE Ok((r.p :> FileNode(d)) @@ f)

\* A write, a mkdir after the steps that led to r, unless they raised.
ThenWrite(r, p, d) == IF r.exc # "none" THEN r ELSE WriteFile(r.f, p, d)
ThenMkdirs(r, p) == IF r.exc # "none" THEN r ELSE Mkdirs(r.f, p)

\* The content of the regular file a path names.
ReadFile(f, p) == Node(f, Canon(f, p, TRUE).p).d

\* Path.iterdir(): the entries root / name of a directory
IterDir(f, p) ==
    LET r == Canon(f, p, TRUE)
    IN IF r.err # "none" THEN [exc |-> OSError(r.err), s |-> {}]
       ELSE IF Node(f, r.p).k = "none" THEN [exc |-> "FileNotFoundError", s |-> {}]
       ELSE IF Node(f, r.p).k # "dir" THEN [exc |-> "NotADirectoryError", s |-> {}]
       ELSE [exc |-> "none",
             s |-> {Append(p, x[Len(x)]) : x \in {y \in DOMAIN f : y # <<>> /\ Parent(y) = r.p}}]

Name(p) == p[Len(p)]

RECURSIVE CommonPrefix(_, _)
CommonPrefix(a, b) ==
    IF a = <<>> \/ b = <<>> THEN <<>>
    ELSE IF Head(a) # Head(b) THEN <<>>
    ELSE <<Head(a)>> \o CommonPrefix(Tail(a), Tail(b))

\* posixpath._joinrealpath (non-strict): links resolved one by one with a
\* cache of the links seen, keyed by the text of the path: relative to the
\* working directory or absolute (abs).  A link with an absolute target takes
\* the walk back to "/" and the text is absolute from there on; a relative
\* target goes up from the link's directory to the common ancestor and down
\* again, the text staying as it was.  A link met again, under the same text,
\* while it is being resolved is a loop and ends the resolution with the rest
\* of the path appended as it is.
RECURSIVE joinrealpath(_, _, _, _, _)
joinrealpath(f, abs, path, rest, seen) ==
    IF rest = <<>> THEN [p |-> path, abs |-> abs, ok |-> TRUE, seen |-> seen]
    ELSE LET newpath == Append(path, Head(rest))
             key == <<abs, newpath>>
             n == Node(f, newpath)
         IN IF n.k # "link" THEN joinrealpath(f, abs, newpath, Tail(rest), seen)
            ELSE IF key \in DOMAIN seen
                 THEN IF seen[key].done
                      THEN joinrealpath(f, seen[key].abs, seen[key].p, Tail(rest), seen)
                      ELSE [p |-> newpath \o Tail(rest), abs |-> abs, ok |-> FALSE,
                            seen |-> seen]
            ELSE LET s1 == [x \in DOMAIN seen \cup {key} |->
                               IF x = key THEN [done |-> FALSE, abs |-> abs, p |-> <<>>]
                               ELSE seen[x]]
                     up == CommonPrefix(path, n.to)
                     r == IF "rel" \in DOMAIN n
                          THEN joinrealpath(f, abs, up,
                                            SubSeq(n.to, Len(up) + 1, Len(n.to)), s1)
                          ELSE joinrealpath(f, TRUE, <<>>, n.to, s1)
                 IN IF ~r.ok
                    THEN [p |-> r.p \o Tail(rest), abs |-> r.abs, ok |-> FALSE,
                          seen |-> r.seen]
                    ELSE joinrealpath(f, r.abs, r.p, Tail(rest),
                                      [x \in DOMAIN r.seen |->
                                          IF x = key
                                          THEN [done |-> TRUE, abs |-> r.abs, p |-> r.p]
                                          ELSE r.seen[x]])

\* os.path.realpath of a path given relative to the working directory (what
\* Path.resolve() passes for BASE_JSON and IMAGES_ROOT), made absolute.
Realpath(f, path, rest, seen) == joinrealpath(f, FALSE, path, rest, seen)

\* Path.resolve(): realpath, then a stat of the result that turns ELOOP into
\* RuntimeError.
resolve(f, p) ==
    LET real == Realpath(f, <<>>, p, <<>>).p
    IN [p |-> real,
        exc |-> IF Canon(f, real, TRUE).err = "ELOOP" THEN "RuntimeError" ELSE "none"]

(***************************************************************************)
(* build_caches_from_mask: the two-class remap and the one-hot encoding.   *)
(***************************************************************************)
Pixels(h, w) == (1..h) \X (1..w)

\* src.read(1).astype("uint8")
AsUint8(raster) == [raster EXCEPT !.px = [p \in DOMAIN raster.px |-> raster.px[p] % 256]]

\* Remap without the 255 -> 0 rule.
Remap_Keep255(m) == m

\* m = np.where(m == 255, 0, m)
Remap(m) == [m EXCEPT !.px = [p \in DOMAIN m.px |-> IF m.px[p] = 255 THEN 0 ELSE m.px[p]]]

\* "x" in classes
In(x, seq) == \E i \in DOMAIN seq : seq[i] = x

\* classes.index(x): the first position holding x
Index(seq, x) == CHOOSE i \in DOMAIN seq : seq[i] = x /\ \A j \in 1..(i - 1) : seq[j] # x

\* OneHot without the (m > 1) fallback line.
OneHot_NoFallback(m, cls) ==
    LET K == Len(cls)
        clear(p, k) == In("Clear", cls) /\ k = Index(cls, "Clear") /\ m.px[p] = 0
        cloud(p, k) == In("Cloud", cls) /\ k = Index(cls, "Cloud") /\ m.px[p] = 1
    IN [shape |-> <<m.h, m.w, K>>,
        val |-> [p \in Pixels(m.h, m.w) |-> [k \in 1..K |-> clear(p, k) \/ cloud(p, k)]]]

\* OneHot with the channels in the fixed order of CLASS_MAP (0: Clear, 1: Cloud)
\* instead of the class table's order.
OneHot_FixedOrder(m, cls) ==
    LET K == Len(cls)
        clear(p, k) == In("Clear", cls) /\ k = 1 /\ m.px[p] = 0
        cloud(p, k) == In("Cloud", cls) /\ k = 2 /\ m.px[p] >= 1
    IN [shape |-> <<m.h, m.w, K>>,
        val |-> [p \in Pixels(m.h, m.w) |-> [k \in 1..K |-> clear(p, k) \/ cloud(p, k)]]]

\* onehot = zeros((H, W, K)); the two guarded |= assignments
OneHot(m, cls) ==
    LET K == Len(cls)
        clear(p, k) == In("Clear", cls) /\ k = Index(cls, "Clear") /\ m.px[p] = 0
        cloud(p, k) == In("Cloud", cls) /\ k = Index(cls, "Cloud")
                          /\ (m.px[p] = 1 \/ m.px[p] > 1)
    IN [shape |-> <<m.h, m.w, K>>,
        val |-> [p \in Pixels(m.h, m.w) |-> [k \in 1..K |-> clear(p, k) \/ cloud(p, k)]]]

\* UserMask that keeps the former no-data rule: code 0 after the remap
\* (which holds the folded 255) is not valid.
UserMask_NoData(m) ==
    [shape |-> <<m.h, m.w>>, val |-> [p \in Pixels(m.h, m.w) |-> m.px[p] # 0]]

\* user = np.ones((H, W), dtype=bool)
UserMask(m) ==
    [shape |-> <<m.h, m.w>>, val |-> [p \in Pixels(m.h, m.w) |-> TRUE]]

\* rgbmask = zeros; for k in order: rgbmask[onehot[:, :, k]] = class_colors[k]
RECURSIVE Paint(_, _, _, _)
Paint(onehotPx, colors, k, acc) ==
    IF k > Len(colors) THEN acc
    ELSE Paint(onehotPx, colors, k + 1, IF onehotPx[k] THEN colors[k] ELSE acc)

RgbMask(onehot, colors) ==
    [p \in DOMAIN onehot.val |-> Paint(onehot.val[p], colors, 1, <<0, 0, 0>>)]

SegDir(proj_dir, proj_name, id_src_dir) ==
    proj_dir \o <<proj_name \o ".iris", "segmentation", Name(id_src_dir)>>

\* The whole function: the file system after the call and the exception it
\* ended with, if any.
\* Lines 142-150: seg_dir.mkdir, the two np.save and the preview, for the
\* remapped mask m
SaveCaches(f, seg_dir, m, cls, colors) ==
    ThenWrite(ThenWrite(ThenWrite(Mkdirs(f, seg_dir),
                                  Append(seg_dir, "1_final.npy"), [npy |-> OneHot(m, cls)]),
                        Append(seg_dir, "1_user.npy"), [npy |-> UserMask(m)]),
              Append(seg_dir, "mask.png"), [png |-> RgbMask(OneHot(m, cls), colors)])

BuildCachesFromMask(f, id_src_dir, proj_dir, proj_name, cls, colors) ==
    IF ~Exists(f, Append(id_src_dir, MASK_TIF_NAME)) THEN Ok(f)
    ELSE IF ~IsFile(f, Append(id_src_dir, MASK_TIF_NAME)) THEN Raise(f, "RasterioIOError")
    ELSE SaveCaches(f, SegDir(proj_dir, proj_name, id_src_dir),
                    Remap(AsUint8(ReadFile(f, Append(id_src_dir, MASK_TIF_NAME)).tif)),
                    cls, colors)

(***************************************************************************)
(* Inputs of the mask encoder: class tables and mask rasters.              *)
(***************************************************************************)
ClassNames == {"Clear", "Cloud", "Shadow"}

ClassTables == UNION {[1..n -> ClassNames] : n \in 0..MaxK}

\* base.json "colour" entries are RGBA
ColourOf(n) ==
    IF n = "Clear" THEN <<255, 255, 255, 0>>
    ELSE IF n = "Cloud" THEN <<255, 0, 0, 70>>
    ELSE <<0, 0, 255, 70>>

TemplateClasses(tbl) == [i \in DOMAIN tbl |-> [name |-> tbl[i], colour |-> ColourOf(tbl[i])]]

\* classes = [c["name"] for c in base_cfg["classes"]]
ClassesOf(tc) == [i \in DOMAIN tc |-> tc[i].name]

\* class_colors = [tuple(c["colour"][:3]) for c in base_cfg["classes"]]
ClassColorsOf(tc) == [i \in DOMAIN tc |-> SubSeq(tc[i].colour, 1, 3)]

\* A single-band raster of h rows and w columns whose pixels run through
\* consecutive codes (mod 256) from v on, in row-major order.
Ramp(h, w, v) ==
    [h |-> h, w |-> w,
     px |-> [p \in Pixels(h, w) |-> (v + (p[1] - 1) * w + (p[2] - 1)) % 256]]

\* The rasters tried: a single pixel and the largest raster of the model, over
\* every code.
MaskRasters == {Ramp(s[1], s[2], v) : s \in {<<1, 1>>, <<MaxH, MaxW>>}, v \in 0..255}

\* id_src_dir = images_root / id_name; proj_dir = base_json_path.parent / "spot" / id_name
SrcDir(root, id) == Append(root, id)
ProjDir(bjp, id) == Parent(bjp) \o <<"spot", id>>

SceneA == "V1"
MaskSrc == SrcDir(IMAGES_ROOT, SceneA)
MaskProj == ProjDir(BASE_JSON, SceneA)

\* A tree holding the directories named, all real.
DirsOnly(ps) == [p \in ps |-> DirNode]

MaskFsBase == DirsOnly({<<"spot">>, IMAGES_ROOT, MaskSrc, MaskProj})

MaskFs(r) == WriteFile(MaskFsBase, Append(MaskSrc, MASK_TIF_NAME), [tif |-> r]).f

\* The same with a regular file where the project's <name>.iris directory goes.
MaskFsBlocked(r) ==
    WriteFile(MaskFs(r), Append(MaskProj, SceneA \o ".iris"), [txt |-> "notes"]).f

(***************************************************************************)
(* Specification of one call of build_caches_from_mask.                    *)
(***************************************************************************)
MaskInit ==
    /\ \E tbl \in ClassTables :
          /\ classes = tbl
          /\ class_colors = ClassColorsOf(TemplateClasses(tbl))
    /\ \/ fs = MaskFsBase
       \/ \E r \in MaskRasters : fs = MaskFs(r)
       \/ \E v \in {0, 1} : fs = MaskFsBlocked(Ramp(1, 1, v))
    /\ fs0 = fs
    /\ pc = "mask_call" /\ exc = "none"
    /\ heap = <<>> /\ base_cfg = 0 /\ cfg = 0
    /\ ids = <<>> /\ idx = 0 /\ run_lines = <<>>
    /\ IDS = <<>> /\ ok = 0 /\ missing = 0

\* A step that only changes the tree: with result r it goes on at `next`, or
\* ends the run at `raised` with what it had written.
Returns(r, next, raised) ==
    /\ fs' = r.f
    /\ exc' = r.exc
    /\ pc' = IF r.exc = "none" THEN next ELSE raised

MaskCall ==
    /\ pc = "mask_call"
    /\ Returns(BuildCachesFromMask(fs, MaskSrc, MaskProj, SceneA, classes, class_colors),
               "mask_done", "mask_raised")
    /\ UNCHANGED <<fs0, heap, base_cfg, cfg, classes, class_colors,
                   ids, idx, run_lines, IDS, ok, missing>>

MaskNext == MaskCall

SpecMask == MaskInit /\ [][MaskNext]_vars

(***************************************************************************)
(* Properties of build_caches_from_mask (specification SpecMask).          *)
(***************************************************************************)
MaskTif == Append(MaskSrc, MASK_TIF_NAME)
CacheFile(n) == Append(SegDir(MaskProj, SceneA, MaskSrc), n)
Blocked == Node(fs0, Append(MaskProj, SceneA \o ".iris")).k = "file"
RawMask == ReadFile(fs0, MaskTif).tif
Final == ReadFile(fs, CacheFile("1_final.npy")).npy
User == ReadFile(fs, CacheFile("1_user.npy")).npy
CacheWritten == pc = "mask_done" /\ Exists(fs0, MaskTif) /\ Exists(fs, CacheFile("1_final.npy"))
TrueChannels(p) == {k \in 1..Len(classes) : Final.val[p][k]}

\* C1: when the class table holds both "Clear" and "Cloud", every pixel of
\* 1_final has exactly one true class channel.
C1_ExactlyOneChannel ==
    (CacheWritten /\ In("Clear", classes) /\ In("Cloud", classes)) =>
        \A p \in Pixels(RawMask.h, RawMask.w) : Cardinality(TrueChannels(p)) = 1

C1_Witness ==
    /\ CacheWritten /\ In("Clear", classes) /\ In("Cloud", classes)
    /\ Len(classes) = 3
    /\ \E p \in DOMAIN RawMask.px : RawMask.px[p] = 255
    /\ \E p \in DOMAIN RawMask.px : RawMask.px[p] \in 2..254

\* The reference policy for the table [Clear, Cloud].
PolicyVector(v) == IF v = 0 \/ v = 255 THEN <<TRUE, FALSE>> ELSE <<FALSE, TRUE>>

\* C2: with class table [Clear, Cloud], codes 0 and 255 yield Clear, code 1
\* yields Cloud and every code in 2..254 yields Cloud.
C2_PolicyPerPixel ==
    (CacheWritten /\ classes = <<"Clear", "Cloud">>) =>
        \A p \in Pixels(RawMask.h, RawMask.w) :
            Final.val[p] = PolicyVector(RawMask.px[p])

C2_Witness ==
    /\ CacheWritten /\ classes = <<"Clear", "Cloud">>
    /\ \E p, q \in DOMAIN RawMask.px :
          /\ RawMask.px[p] = 255 /\ RawMask.px[q] = 0
          /\ Final.val[p] = <<TRUE, FALSE>> /\ Final.val[q] = <<TRUE, FALSE>>

\* C3: whenever a cache is written, 1_user has the raster's (height, width)
\* shape and every entry is true, whatever the codes and the class table.
C3_UserAllTrue ==
    CacheWritten =>
        /\ Exists(fs, CacheFile("1_user.npy"))
        /\ User.shape = <<RawMask.h, RawMask.w>>
        /\ DOMAIN User.val = Pixels(RawMask.h, RawMask.w)
        /\ \A p \in DOMAIN User.val : User.val[p] = TRUE

C3_Witness ==
    /\ CacheWritten /\ ~In("Clear", classes)
    /\ RawMask.w = 2 /\ RawMask.h = 1
    /\ \E p \in DOMAIN RawMask.px : RawMask.px[p] = 255
    /\ \E p \in DOMAIN RawMask.px : RawMask.px[p] = 0
    /\ User.val[<<1, 2>>]

MapsToClear(v) == v = 0 \/ v = 255

\* C10: for every class table the call on an existing mask raster raises
\* nothing and writes the cache (the project tree being writable); 1_final has
\* one channel per table entry, only the channels at the positions of "Clear"
\* and "Cloud" are ever true, and a pixel that maps to an absent class has no
\* true channel.
C10_AnyClassTable ==
    (pc # "mask_call" /\ Exists(fs0, MaskTif) /\ ~Blocked) =>
        /\ pc = "mask_done" /\ exc = "none"
        /\ Exists(fs, CacheFile("1_final.npy"))
        /\ Exists(fs, CacheFile("1_user.npy"))
        /\ Exists(fs, CacheFile("mask.png"))
        /\ Final.shape = <<RawMask.h, RawMask.w, Len(classes)>>
        /\ \A p \in Pixels(RawMask.h, RawMask.w) :
              /\ DOMAIN Final.val[p] = 1..Len(classes)
              /\ \A k \in 1..Len(classes) :
                    Final.val[p][k] =>
                        \/ In("Clear", classes) /\ k = Index(classes, "Clear")
                              /\ MapsToClear(RawMask.px[p])
                        \/ In("Cloud", classes) /\ k = Index(classes, "Cloud")
                              /\ ~MapsToClear(RawMask.px[p])
              /\ (MapsToClear(RawMask.px[p]) /\ ~In("Clear", classes)) => TrueChannels(p) = {}
              /\ (~MapsToClear(RawMask.px[p]) /\ ~In("Cloud", classes)) => TrueChannels(p) = {}

C10_Witness ==
    /\ CacheWritten
    /\ classes = <<"Shadow", "Cloud", "Shadow">>
    /\ \E p, q \in DOMAIN RawMask.px :
          /\ RawMask.px[p] = 0 /\ TrueChannels(p) = {}
          /\ RawMask.px[q] = 1 /\ TrueChannels(q) = {2}

(***************************************************************************)
(* The harvest script (src/2_run_after_edit.py).                           *)
(***************************************************************************)
HarvestPool == {"V1", "V2"}

RequestLists == UNION {[1..n -> HarvestPool] : n \in 0..MaxIds}

\* src = SPOT_ROOT / id / f"{id}.iris" / "segmentation" / id / "mask.png"
PreviewPath(id) == SPOT_ROOT \o <<id, id \o ".iris", "segmentation", id, "mask.png">>

\* dst = OUTPUT_DIR / f"{id}.png"
HarvestDst(id) == Append(OUTPUT_DIR, id \o ".png")

PreviewData(id) == [png |-> [p \in Pixels(1, 1) |-> SubSeq(ColourOf(IF id = "V1" THEN "Clear" ELSE "Cloud"), 1, 3)]]
StaleData == [png |-> [p \in Pixels(1, 1) |-> <<0, 0, 0>>]]

\* A tree f extended with the files of d (a function from paths to contents),
\* each under real directories.
RECURSIVE PutAll(_, _)
PutAll(f, d) ==
    IF DOMAIN d = {} THEN f
    ELSE LET p == CHOOSE x \in DOMAIN d : TRUE
         IN PutAll(WriteFile(Mkdirs(f, Parent(p)).f, p, d[p]).f,
                   [x \in DOMAIN d \ {p} |-> d[x]])

HarvestFs(have, stale) ==
    LET f1 == PutAll(DirsOnly({SPOT_ROOT}),
                     [p \in {PreviewPath(i) : i \in have} |-> PreviewData(p[2])])
    IN PutAll(f1, [p \in {HarvestDst(i) : i \in stale} |-> StaleData])

\* The same with a regular file where the output directory goes.
HarvestFsBlocked(have) ==
    WriteFile(HarvestFs(have, {}), OUTPUT_DIR, [txt |-> "notes"]).f

\* shutil.copyfile(src, dst)
copyfile(f, src, dst) ==
    LET s == Canon(f, src, TRUE)
        d == Canon(f, dst, TRUE)
    IN IF s.err = "none" /\ d.err = "none" /\ s.p = d.p /\ Node(f, s.p).k # "none"
       THEN Raise(f, "SameFileError")
       ELSE IF s.err # "none" THEN Raise(f, OSError(s.err))
       ELSE IF Node(f, s.p).k = "none" THEN Raise(f, "FileNotFoundError")
       ELSE IF Node(f, s.p).k = "dir" THEN Raise(f, "IsADirectoryError")
       ELSE WriteFile(f, dst, ReadFile(f, src))

HarvestInit ==
    /\ IDS \in RequestLists
    /\ \E have \in SUBSET HarvestPool :
          \/ \E stale \in SUBSET HarvestPool : fs = HarvestFs(have, stale)
          \/ fs = HarvestFsBlocked(have)
    /\ fs0 = fs
    /\ pc = "h_start" /\ exc = "none"
    /\ ok = 0 /\ missing = 0 /\ idx = 0
    /\ heap = <<>> /\ base_cfg = 0 /\ cfg = 0
    /\ classes = <<>> /\ class_colors = <<>>
    /\ ids = <<>> /\ run_lines = <<>>

\* Lines 28-31 once the mkdir has given r
HarvestStarted(r) ==
    /\ Returns(r, "h_loop", "h_raised")
    /\ IF r.exc # "none"
       THEN UNCHANGED <<ok, missing, idx>>
       ELSE ok' = 0 /\ missing' = 0 /\ idx' = 1

\* OUTPUT_DIR.mkdir(parents=True, exist_ok=True); ok, missing = 0, 0
HarvestStart ==
    /\ pc = "h_start"
    /\ HarvestStarted(Mkdirs(fs, OUTPUT_DIR))
    /\ UNCHANGED <<fs0, heap, base_cfg, cfg, classes, class_colors, ids, run_lines, IDS>>

\* A miss that leaves the loop instead of going on to the next ID.
HarvestMiss_Break ==
    /\ pc = "h_loop" /\ idx <= Len(IDS)
    /\ ~Exists(fs, PreviewPath(IDS[idx]))
    /\ missing' = missing + 1
    /\ pc' = "h_done"
    /\ UNCHANGED <<fs, fs0, exc, heap, base_cfg, cfg, classes, class_colors, ids, run_lines,
                   IDS, ok, idx>>

\* if not src.exists(): missing += 1; continue
HarvestMiss ==
    /\ pc = "h_loop" /\ idx <= Len(IDS)
    /\ ~Exists(fs, PreviewPath(IDS[idx]))
    /\ missing' = missing + 1
    /\ idx' = idx + 1
    /\ UNCHANGED <<fs, fs0, pc, exc, heap, base_cfg, cfg, classes, class_colors, ids,
                   run_lines, IDS, ok>>

\* Line 42 once the copy has given r: the next ID, unless it raised
HarvestCopied(r) ==
    /\ Returns(r, "h_loop", "h_raised")
    /\ idx' = IF r.exc # "none" THEN idx ELSE idx + 1

\* shutil.copyfile(src, dst)
HarvestCopy ==
    /\ pc = "h_loop" /\ idx <= Len(IDS)
    /\ Exists(fs, PreviewPath(IDS[idx]))
    /\ HarvestCopied(copyfile(fs, PreviewPath(IDS[idx]), HarvestDst(IDS[idx])))
    /\ UNCHANGED <<fs0, heap, base_cfg, cfg, classes, class_colors, ids, run_lines,
                   IDS, ok, missing>>

\* the for loop is exhausted
HarvestEnd ==
    /\ pc = "h_loop" /\ idx > Len(IDS)
    /\ pc' = "h_done"
    /\ UNCHANGED <<fs, fs0, exc, heap, base_cfg, cfg, classes, class_colors, ids, idx,
                   run_lines, IDS, ok, missing>>

HarvestNext == HarvestStart \/ HarvestMiss \/ HarvestCopy \/ HarvestEnd

SpecHarvest == HarvestInit /\ [][HarvestNext]_vars

(***************************************************************************)
(* Properties of the harvest script (specification SpecHarvest).           *)
(***************************************************************************)
Handled == IF idx = 0 THEN 0 ELSE idx - 1
AbsentPositions(n) == {i \in 1..n : ~Exists(fs0, PreviewPath(IDS[i]))}
OutputDirUsable == Node(fs0, OUTPUT_DIR).k # "file"

\* C5: an ID whose preview is absent raises nothing, adds one to the miss
\* counter and writes no output file; the IDs after it are still processed;
\* every ID whose preview exists ends with a copy at <output-dir>/<ID>.png;
\* at the end the miss counter is the number of requested IDs without preview.
C5_HarvestMisses ==
    /\ pc \in {"h_loop", "h_done"} =>
          /\ missing = Cardinality(AbsentPositions(Handled))
          /\ \A i \in 1..Handled :
                IF Exists(fs0, PreviewPath(IDS[i]))
                THEN /\ Exists(fs, HarvestDst(IDS[i]))
                     /\ ReadFile(fs, HarvestDst(IDS[i])) = ReadFile(fs0, PreviewPath(IDS[i]))
                ELSE Node(fs, HarvestDst(IDS[i])) = Node(fs0, HarvestDst(IDS[i]))
    /\ pc = "h_loop" => ENABLED HarvestNext
    /\ (OutputDirUsable /\ pc # "h_start") => (pc \in {"h_loop", "h_done"} /\ exc = "none")
    /\ pc = "h_done" =>
          /\ Handled = Len(IDS)
          /\ missing = Cardinality(AbsentPositions(Len(IDS)))

C5_Witness ==
    /\ pc = "h_done"
    /\ IDS = <<"V1", "V2", "V1">>
    /\ ~Exists(fs0, PreviewPath("V1")) /\ Exists(fs0, PreviewPath("V2"))
    /\ ~Exists(fs, HarvestDst("V1"))
    /\ ReadFile(fs, HarvestDst("V2")) = PreviewData("V2")
    /\ missing = 2

(***************************************************************************)
(* JSON documents and the Python objects json.load builds from them.       *)
(* A dict is a sequence of key/value items in insertion order; a document  *)
(* is a tree of dicts; a loaded document is a graph of dict objects in the *)
(* heap, nested dicts held by reference.                                   *)
(***************************************************************************)
JObj(o) == [t |-> "obj", o |-> o]
JStr(x) == [t |-> "str", s |-> x]
JList(l) == [t |-> "list", l |-> l]
JClasses(c) == [t |-> "classes", c |-> c]
Ref(a) == [t |-> "ref", a |-> a]
Item(k, v) == [k |-> k, v |-> v]

\* k in d, d[k], d[k] = v
Keys(d) == {d[i].k : i \in DOMAIN d}
Has(d, k) == \E i \in DOMAIN d : d[i].k = k
Get(d, k) == d[CHOOSE i \in DOMAIN d : d[i].k = k].v
Put(d, k, v) ==
    IF Has(d, k) THEN [i \in DOMAIN d |-> IF d[i].k = k THEN Item(k, v) ELSE d[i]]
    ELSE Append(d, Item(k, v))

RECURSIVE MaxOf(_)
MaxOf(S) == IF S = {} THEN 0 ELSE LET x == CHOOSE y \in S : TRUE
                                      m == MaxOf(S \ {x})
                                  IN IF x > m THEN x ELSE m

Fresh(h) == MaxOf(DOMAIN h) + 1

\* A new empty dict at address a
NewDict(h, a) == [x \in DOMAIN h \cup {a} |-> IF x = a THEN <<>> ELSE h[x]]

\* d[k] = v on the dict at address a
SetField(h, a, k, v) == [h EXCEPT ![a] = Put(h[a], k, v)]

\* json.dumps / json.dump: the document of the object at address a
RECURSIVE Dump(_, _)
Dump(h, a) ==
    JObj([i \in DOMAIN h[a] |->
             Item(h[a][i].k, IF h[a][i].v.t = "ref" THEN Dump(h, h[a][i].v.a) ELSE h[a][i].v)])

\* json.loads / json.load: fresh objects for the document and all it nests
RECURSIVE Load(_, _), LoadFields(_, _, _, _)
Load(h, tree) ==
    LET a == Fresh(h)
    IN [heap |-> LoadFields(NewDict(h, a), a, tree.o, 1), root |-> a]

LoadFields(h, a, o, i) ==
    IF i > Len(o) THEN h
    ELSE IF o[i].v.t = "obj"
         THEN LET r == Load(h, o[i].v)
              IN LoadFields(SetField(r.heap, a, o[i].k, Ref(r.root)), a, o, i + 1)
         ELSE LoadFields(SetField(h, a, o[i].k, o[i].v), a, o, i + 1)

\* A copy that duplicates the top-level dict only (dict(base_cfg)).
DeepCopy_Shallow(h, a) ==
    LET r == Fresh(h)
    IN [heap |-> [x \in DOMAIN h \cup {r} |-> IF x = r THEN h[a] ELSE h[x]], root |-> r]

\* cfg = json.loads(json.dumps(base_cfg))
DeepCopy(h, a) == Load(h, Dump(h, a))

\* The objects reachable from the addresses of S (the rest is garbage).
RefsOf(d) == {d[i].v.a : i \in {j \in DOMAIN d : d[j].v.t = "ref"}}

RECURSIVE Reach(_, _)
Reach(h, S) ==
    LET next == S \cup UNION {RefsOf(h[a]) : a \in S}
    IN IF next = S THEN S ELSE Reach(h, next)

Collect(h, S) == [a \in Reach(h, S) |-> h[a]]

\* The injected image path with the scene ID filled in.
ImagePath_Instantiated(id) == "images/" \o id \o "/rgb.npy"

\* cfg["images"]["path"] = "images/{id}/rgb.npy"  (a plain string, not an f-string)
ImagePath(id) == "images/{id}/rgb.npy"

\* Shape written height first.
ShapeOf_HeightFirst(W, H) == <<H, W>>

\* cfg["images"]["shape"] = [W, H]
ShapeOf(W, H) == <<W, H>>

\* d.setdefault(k, {}) on the dict at address c
SetDefault(h, c, k) ==
    IF Has(h[c], k) THEN h
    ELSE SetField(NewDict(h, Fresh(h)), c, k, Ref(Fresh(h)))

\* Lines 211-215: the fields injected in the copy at address c; the heap
\* after them and the exception raised on the way, if any.
InjectFields(h, c, id, W, H) ==
    LET h1 == SetField(h, c, "name", JStr(id))
    IN IF ~Has(h1[c], "images") THEN [heap |-> h1, exc |-> "KeyError"]
       ELSE IF Get(h1[c], "images").t # "ref" THEN [heap |-> h1, exc |-> "TypeError"]
       ELSE LET img == Get(h1[c], "images").a
                h2 == SetField(h1, img, "path", JStr(ImagePath(id)))
                h3 == SetField(h2, img, "shape", JList(ShapeOf(W, H)))
                h4 == SetDefault(h3, c, "segmentation")
            IN IF Get(h4[c], "segmentation").t # "ref"
               THEN [heap |-> h4, exc |-> "TypeError"]
               ELSE [heap |-> SetField(h4, Get(h4[c], "segmentation").a, "mask_area",
                                       JList(<<0, 0, W, H>>)),
                     exc |-> "none"]

(***************************************************************************)
(* Helpers of the preparation script.                                      *)
(***************************************************************************)
\* The scene names of the model and their code points (Python compares
\* strings code point by code point).
ScenePool == <<"V2", "V10", "V1", "V1A">>
SceneNames == {ScenePool[i] : i \in 1..MaxScenes}
Code(n) ==
    IF n = "V2" THEN <<86, 50>>
    ELSE IF n = "V10" THEN <<86, 49, 48>>
    ELSE IF n = "V1" THEN <<86, 49>>
    ELSE <<86, 49, 65>>

RECURSIVE LexLess(_, _)
LexLess(a, b) ==
    IF a = <<>> THEN b # <<>>
    ELSE IF b = <<>> THEN FALSE
    ELSE IF Head(a) # Head(b) THEN Head(a) < Head(b)
    ELSE LexLess(Tail(a), Tail(b))

\* sorted(names)
RECURSIVE Sorted(_)
Sorted(S) ==
    IF S = {} THEN <<>>
    ELSE LET m == CHOOSE x \in S : \A y \in S \ {x} : LexLess(Code(x), Code(y))
         IN <<m>> \o Sorted(S \ {m})

\* list_ids(root): sorted([p.name for p in root.iterdir() if p.is_dir()])
\* The directories of a listing, sorted by name
SortedDirs(f, it) ==
    [exc |-> it.exc,
     ids |-> IF it.exc # "none" THEN <<>>
             ELSE Sorted({Name(p) : p \in {q \in it.s : IsDir(f, q)}})]

list_ids(f, root) == SortedDirs(f, IterDir(f, root))

\* write_rgb_npy_to_dest(tif_path, dest_npy)
\* Lines 53-55: src.read() is (C, H, W); moveaxis(arr, 0, -1) is (H, W, C)
ArrayOf(src) == [shape |-> <<src.h, src.w, src.count>>, dtype |-> "float32"]

\* Lines 53-57 on what lines 51-52 left (r)
SaveRgbNpy(r, tif_path, dest_npy) ==
    IF r.exc # "none" THEN r
    ELSE IF ~IsFile(r.f, tif_path) THEN Raise(r.f, "RasterioIOError")
    ELSE ThenWrite(Mkdirs(r.f, Parent(dest_npy)), dest_npy,
                   [npy |-> ArrayOf(ReadFile(r.f, tif_path).tif)])

write_rgb_npy_to_dest(f, tif_path, dest_npy) ==
    SaveRgbNpy(IF IsSymlink(f, dest_npy) \/ Exists(f, dest_npy)
               THEN Unlink(f, dest_npy) ELSE Ok(f),
               tif_path, dest_npy)

\* get_width_height_from_tif(tif_path): (W, H)
get_width_height_from_tif(f, tif_path) ==
    LET src == ReadFile(f, tif_path).tif IN <<src.w, src.h>>

\* The float n / 2, as an exact fraction in lowest terms.
Half(n) == IF n % 2 = 0 THEN [num |-> n \div 2, den |-> 1] ELSE [num |-> n, den |-> 2]

\* compute_center_latlon(tif_path): <<lat, lon>>, or <<>> for None.  The
\* rasters of the model are in EPSG:4326, where the reprojection of the
\* centre (cx, cy) is lon = cx, lat = cy.
compute_center_latlon(f, tif_path) ==
    LET src == ReadFile(f, tif_path).tif
    IN IF ~src.crs THEN <<>>
       ELSE LET cx == Half(src.left + src.right)
                cy == Half(src.bottom + src.top)
            IN <<cy, cx>>

\* safe_make_clean_dest_dir(path)
safe_make_clean_dest_dir(f, path) ==
    ThenMkdirs(IF IsSymlink(f, path) THEN Unlink(f, path) ELSE Ok(f), path)

\* remove_source_rgb_npy(id_src_dir): a failing unlink is caught (lines
\* 94-95) and leaves the tree as it is.
\* try / except Exception around a step on the tree f
Caught(f, r) == IF r.exc # "none" THEN Ok(f) ELSE r

remove_source_rgb_npy(f, id_src_dir) ==
    IF IsSymlink(f, Append(id_src_dir, "rgb.npy")) \/ Exists(f, Append(id_src_dir, "rgb.npy"))
    THEN Caught(f, Unlink(f, Append(id_src_dir, "rgb.npy")))
    ELSE Ok(f)

\* Metadata written whether or not the raster has a coordinate system.
WriteMetadata_Always(f, dir, id, latlon) ==
    WriteFile(f, Append(dir, "metadata.json"),
              [json |-> [scene_id |-> id, location |-> latlon]])

\* Lines 196-203: metadata.json only when the raster has a coordinate system
WriteMetadata(f, dir, id, latlon) ==
    IF latlon = <<>> THEN Ok(f)
    ELSE WriteFile(f, Append(dir, "metadata.json"),
                   [json |-> [scene_id |-> id, location |-> latlon]])

\* The steps of lines 188-223, each on what the steps before it left (r).
safe_make_clean_dest_dir_after(r, path) ==
    IF r.exc # "none" THEN r ELSE safe_make_clean_dest_dir(r.f, path)
write_rgb_npy_to_dest_after(r, tif_path, dest_npy) ==
    IF r.exc # "none" THEN r ELSE write_rgb_npy_to_dest(r.f, tif_path, dest_npy)
WriteMetadataAfter(r, dir, id, tif_path) ==
    IF r.exc # "none" THEN r
    ELSE IF ~IsFile(r.f, tif_path) THEN Raise(r.f, "RasterioIOError")
    ELSE WriteMetadata(r.f, dir, id, compute_center_latlon(r.f, tif_path))
remove_source_rgb_npy_after(r, id_src_dir) ==
    IF r.exc # "none" THEN r ELSE remove_source_rgb_npy(r.f, id_src_dir)
BuildCachesFromMaskAfter(r, id_src_dir, proj_dir, id_name) ==
    IF r.exc # "none" THEN r
    ELSE BuildCachesFromMask(r.f, id_src_dir, proj_dir, id_name, classes, class_colors)

RECURSIVE Join(_)
Join(p) == IF p = <<>> THEN "" ELSE "/" \o Head(p) \o Join(Tail(p))

\* f"iris label {proj_json}": the absolute path, "<base>" standing for the
\* working directory
RunLine(proj_json) == "iris label <base>" \o Join(proj_json)

\* proj_json = proj_dir / f"{id_name}.json"
ProjJson(bjp, id) == Append(ProjDir(bjp, id), id \o ".json")

\* run_sh = base_json_path.parent / "run_all_projects.sh"
RunSh(bjp) == Append(Parent(bjp), "run_all_projects.sh")

(***************************************************************************)
(* Inputs of the preparation script: the template and the trees a run can  *)
(* start from (sources as copied, outputs and links left by earlier runs). *)
(***************************************************************************)
\* The templates of the model: the two-class table with a segmentation
\* section, and a longer table in another order without one.
MainTemplates == {[tbl |-> <<"Clear", "Cloud">>, seg |-> TRUE],
                  [tbl |-> <<"Cloud", "Shadow", "Clear">>, seg |-> FALSE]}

Template(tbl, hasSeg) ==
    LET images == JObj(<<Item("path", JStr("images/{id}/image.tif")),
                         Item("shape", JList(<<512, 512>>)),
                         Item("metadata", JStr("images/{id}/metadata.json"))>>)
        seg == JObj(<<Item("path", JStr("{id}/mask.png")),
                      Item("mask_area", JList(<<64, 64, 448, 448>>)),
                      Item("score", JStr("f1"))>>)
    IN JObj(<<Item("name", JStr("template")),
              Item("images", images),
              Item("classes", JClasses(TemplateClasses(tbl)))>>
            \o (IF hasSeg THEN <<Item("segmentation", seg)>> ELSE <<>>))

\* Templates that lack a key the script reads.
TemplateNoImages ==
    JObj(<<Item("name", JStr("template")),
           Item("classes", JClasses(TemplateClasses(<<"Clear", "Cloud">>)))>>)
TemplateNoClasses ==
    JObj(<<Item("name", JStr("template")),
           Item("images", JObj(<<Item("path", JStr("images/{id}/image.tif"))>>))>>)

TifA == [w |-> 2, h |-> 1, count |-> 3, crs |-> TRUE,
         left |-> 10, right |-> 13, bottom |-> 40, top |-> 44]
TifB == [w |-> 1, h |-> 2, count |-> 3, crs |-> FALSE,
         left |-> 0, right |-> 1, bottom |-> 0, top |-> 2]
SceneMask == Ramp(1, 2, 255)

StaleNpy == [npy |-> [shape |-> <<1, 1, 3>>, dtype |-> "float32"]]
StaleMeta == [json |-> [scene_id |-> "old", location |-> <<Half(0), Half(0)>>]]
StaleCfg == [json |-> JObj(<<Item("name", JStr("old"))>>)]
StaleFinal == [npy |-> OneHot(Ramp(1, 1, 1), <<"Clear", "Cloud">>)]
StaleUser == [npy |-> UserMask(Ramp(1, 1, 1))]
StalePng == [png |-> RgbMask(OneHot(Ramp(1, 1, 1), <<"Clear", "Cloud">>),
                             <<<<9, 9, 9>>, <<9, 9, 9>>>>)]

\* What earlier runs and the user can have left for a scene: nothing
\* ("fresh"); a full output ("prior"); rgb.npy and metadata.json in the
\* source ("legacy"); a link at <ID>/images/<ID>, at rgb.npy or at <ID>/images
\* into the source tree; a link at <ID>/images to a directory that is gone
\* ("dangling"); a directory named rgb.npy in the source ("npyDir"); a
\* directory where <ID>.json goes ("jsonDir").
Layouts == {"fresh", "prior", "legacy", "linkId", "linkNpy", "linkImages",
            "dangling", "npyDir", "jsonDir"}

\* The entries of the images root: nothing, a stray file, a scene directory
\* without rgb.tif, or a scene directory with one of the two rasters.
Entries ==
    {[kind |-> "absent", tif |-> "none", mask |-> FALSE, layout |-> "fresh"],
     [kind |-> "file", tif |-> "none", mask |-> FALSE, layout |-> "fresh"],
     [kind |-> "dir", tif |-> "none", mask |-> TRUE, layout |-> "fresh"],
     [kind |-> "dir", tif |-> "none", mask |-> FALSE, layout |-> "prior"]}
    \cup {[kind |-> "dir", tif |-> "A", mask |-> TRUE, layout |-> "fresh"],
          [kind |-> "dir", tif |-> "A", mask |-> TRUE, layout |-> "prior"],
          [kind |-> "dir", tif |-> "A", mask |-> FALSE, layout |-> "prior"]}
    \cup {[kind |-> "dir", tif |-> "B", mask |-> FALSE, layout |-> l] :
              l \in {"fresh", "prior"}}
    \cup {[kind |-> "dir", tif |-> "A", mask |-> TRUE, layout |-> l] :
              l \in {"legacy", "linkImages", "dangling", "jsonDir"}}
    \cup {[kind |-> "dir", tif |-> "B", mask |-> FALSE, layout |-> l] :
              l \in {"linkId", "linkNpy", "npyDir"}}

\* The entries tried when base.json or the images root is reached through a
\* link.
LinkedEntries ==
    {[kind |-> "absent", tif |-> "none", mask |-> FALSE, layout |-> "fresh"],
     [kind |-> "dir", tif |-> "none", mask |-> TRUE, layout |-> "fresh"],
     [kind |-> "dir", tif |-> "A", mask |-> TRUE, layout |-> "fresh"],
     [kind |-> "dir", tif |-> "B", mask |-> FALSE, layout |-> "prior"]}

Merge(f, g) == g @@ f

Only(c, f) == IF c THEN f ELSE <<>>

\* The nodes of one entry of the images root (S its source directory) and of
\* its project directory P.
SceneNodes(id, e, S, P) ==
    LET D == P \o <<"images", id>>
        G == SegDir(P, id, S)
        J == Append(P, id \o ".json")
    IN IF e.kind = "absent" THEN <<>>
       ELSE IF e.kind = "file" THEN [x \in {S} |-> FileNode([txt |-> "notes"])]
       ELSE
         Merge(Merge(Merge(Merge(Merge(Merge(Merge(Merge(
           [x \in {S} |-> DirNode],
           Only(e.tif # "none", [x \in {Append(S, "rgb.tif")} |->
                    FileNode([tif |-> IF e.tif = "A" THEN TifA ELSE TifB])])),
           Only(e.mask, [x \in {Append(S, MASK_TIF_NAME)} |-> FileNode([tif |-> SceneMask])])),
           Only(e.layout \in {"legacy", "linkId", "linkNpy", "linkImages"},
                [x \in {Append(S, "rgb.npy")} |-> FileNode(StaleNpy)])),
           Only(e.layout \in {"legacy", "linkId"},
                [x \in {Append(S, "metadata.json")} |-> FileNode(StaleMeta)])),
           Only(e.layout = "npyDir",
                [x \in {Append(S, "rgb.npy"), S \o <<"rgb.npy", "keep">>} |->
                    IF x = Append(S, "rgb.npy") THEN DirNode
                    ELSE FileNode([txt |-> "notes"])])),
           Only(e.layout \in {"prior", "linkId", "linkNpy", "linkImages", "dangling", "jsonDir"},
                [x \in {Parent(P), P} |-> DirNode])),
           Only(e.layout \in {"prior", "linkId", "linkNpy"},
                [x \in {Append(P, "images")} |-> DirNode])),
           IF e.layout = "prior" THEN
               [x \in {D, Append(D, "rgb.npy"), Append(D, "metadata.json"), J,
                       Append(P, id \o ".iris"), P \o <<id \o ".iris", "segmentation">>, G,
                       Append(G, "1_final.npy"), Append(G, "1_user.npy"),
                       Append(G, "mask.png")} |->
                   IF x = Append(D, "rgb.npy") THEN FileNode(StaleNpy)
                   ELSE IF x = Append(D, "metadata.json") THEN FileNode(StaleMeta)
                   ELSE IF x = J THEN FileNode(StaleCfg)
                   ELSE IF x = Append(G, "1_final.npy") THEN FileNode(StaleFinal)
                   ELSE IF x = Append(G, "1_user.npy") THEN FileNode(StaleUser)
                   ELSE IF x = Append(G, "mask.png") THEN FileNode(StalePng)
                   ELSE DirNode]
           ELSE IF e.layout = "linkId" THEN [x \in {D} |-> LinkNode(S)]
           ELSE IF e.layout = "linkNpy" THEN
               [x \in {D, Append(D, "rgb.npy")} |->
                   IF x = D THEN DirNode ELSE LinkNode(Append(S, "rgb.npy"))]
           ELSE IF e.layout = "linkImages" THEN
               [x \in {Append(P, "images")} |-> LinkNode(Parent(S))]
           ELSE IF e.layout = "dangling" THEN
               [x \in {Append(P, "images")} |-> LinkNode(<<"spot", "gone">>)]
           ELSE IF e.layout = "jsonDir" THEN [x \in {J} |-> DirNode]
           ELSE <<>>)

\* Where base.json and the images root really are: in the working directory
\* ("plain"), base.json a link to cfg/base.json ("cfgLink"), spot/images a
\* link to data/images ("dataLink").
RootLayouts == {"plain", "cfgLink", "dataLink"}
BaseAt(rl) == IF rl = "cfgLink" THEN <<"cfg", "base.json">> ELSE BASE_JSON
ImagesAt(rl) == IF rl = "dataLink" THEN <<"data", "images">> ELSE IMAGES_ROOT

RootNodes(tpl, rl) ==
    Merge(Merge(
      [x \in {SPOT_ROOT, BaseAt(rl), ImagesAt(rl)} |->
          IF x = BaseAt(rl) THEN FileNode([json |-> tpl]) ELSE DirNode],
      Only(rl = "cfgLink",
           [x \in {<<"cfg">>, BASE_JSON} |->
               IF x = BASE_JSON THEN LinkNode(BaseAt(rl)) ELSE DirNode])),
      Only(rl = "dataLink",
           [x \in {<<"data">>, IMAGES_ROOT} |->
               IF x = IMAGES_ROOT THEN LinkNode(ImagesAt(rl)) ELSE DirNode]))

RECURSIVE TreeOf(_, _, _)
TreeOf(names, es, rl) ==
    IF names = {} THEN <<>>
    ELSE LET n == CHOOSE x \in names : TRUE
         IN Merge(SceneNodes(n, es[n], SrcDir(ImagesAt(rl), n), ProjDir(BaseAt(rl), n)),
                  TreeOf(names \ {n}, es, rl))

Tree(rl, tpl, es) == Merge(RootNodes(tpl, rl), TreeOf(SceneNames, es, rl))

\* One scene as copied, nothing else.
OneScene == [n \in SceneNames |->
                IF n = ScenePool[1]
                THEN [kind |-> "dir", tif |-> "A", mask |-> TRUE, layout |-> "fresh"]
                ELSE [kind |-> "absent", tif |-> "none", mask |-> FALSE, layout |-> "fresh"]]

DefaultTemplate == Template(<<"Clear", "Cloud">>, TRUE)

\* Trees the script cannot work on.
NoBaseJson == [x \in {SPOT_ROOT, IMAGES_ROOT} |-> DirNode]
NoImagesRoot == [x \in {BASE_JSON} |-> FileNode([json |-> DefaultTemplate])]
ImagesRootIsFile ==
    [x \in {BASE_JSON, SPOT_ROOT, IMAGES_ROOT} |->
        IF x = BASE_JSON THEN FileNode([json |-> DefaultTemplate])
        ELSE IF x = IMAGES_ROOT THEN FileNode([txt |-> "notes"])
        ELSE DirNode]
BaseJsonIsDir == [x \in {BASE_JSON, SPOT_ROOT, IMAGES_ROOT} |-> DirNode]
BaseJsonLoop ==
    [x \in {BASE_JSON, <<"loop.json">>, SPOT_ROOT, IMAGES_ROOT} |->
        IF x = BASE_JSON THEN LinkNode(<<"loop.json">>)
        ELSE IF x = <<"loop.json">> THEN LinkNode(BASE_JSON)
        ELSE DirNode]
BaseJsonRelLoop ==
    [x \in {BASE_JSON, <<"loop.json">>, SPOT_ROOT, IMAGES_ROOT} |->
        IF x = BASE_JSON THEN RelLinkNode(<<"loop.json">>)
        ELSE IF x = <<"loop.json">> THEN RelLinkNode(BASE_JSON)
        ELSE DirNode]

(***************************************************************************)
(* Specification of one run of main / create_projects_per_id.              *)
(***************************************************************************)
Init ==
    /\ \/ \E t \in MainTemplates :
             \/ \E es \in [SceneNames -> Entries] :
                   fs = Tree("plain", Template(t.tbl, t.seg), es)
             \/ \E rl \in RootLayouts \ {"plain"}, es \in [SceneNames -> LinkedEntries] :
                   fs = Tree(rl, Template(t.tbl, t.seg), es)
       \/ fs = NoBaseJson
       \/ fs = NoImagesRoot
       \/ fs = ImagesRootIsFile
       \/ fs = BaseJsonIsDir
       \/ fs = BaseJsonLoop
       \/ fs = BaseJsonRelLoop
       \/ fs = Tree("plain", TemplateNoImages, OneScene)
       \/ fs = Tree("plain", TemplateNoClasses, OneScene)
    /\ fs0 = fs
    /\ pc = "start" /\ exc = "none"
    /\ heap = <<>> /\ base_cfg = 0 /\ cfg = 0
    /\ classes = <<>> /\ class_colors = <<>>
    /\ ids = <<>> /\ idx = 0 /\ run_lines = <<>>
    /\ IDS = <<>> /\ ok = 0 /\ missing = 0

\* Line 245: Path(BASE_JSON).resolve() and IMAGES_ROOT.resolve(), evaluated
\* once, on the tree the run starts from.
base_json_path == resolve(fs0, BASE_JSON).p
images_root == resolve(fs0, IMAGES_ROOT).p

\* Lines 245, 155-163: the two resolves, the two existence checks, json.load,
\* the class table
\* Lines 245, 155-160: the exception the run ends with before the template
\* is parsed, if any
Opening(bjp, root) ==
    IF resolve(fs, BASE_JSON).exc # "none" \/ resolve(fs, IMAGES_ROOT).exc # "none"
    THEN "RuntimeError"
    ELSE IF ~Exists(fs, bjp) \/ ~Exists(fs, root) THEN "FileNotFoundError"
    ELSE IF ~IsFile(fs, bjp) THEN "IsADirectoryError"
    ELSE "none"

\* Lines 160-163 on the loaded document r
Loaded(bad, r) ==
    IF bad # "none"
    THEN /\ pc' = "raised" /\ exc' = bad
         /\ UNCHANGED <<heap, base_cfg, classes, class_colors>>
    ELSE IF ~Has(r.heap[r.root], "classes")
    THEN /\ pc' = "raised" /\ exc' = "KeyError"
         /\ heap' = r.heap /\ base_cfg' = r.root
         /\ UNCHANGED <<classes, class_colors>>
    ELSE /\ heap' = r.heap
         /\ base_cfg' = r.root
         /\ classes' = ClassesOf(Get(r.heap[r.root], "classes").c)
         /\ class_colors' = ClassColorsOf(Get(r.heap[r.root], "classes").c)
         /\ pc' = "loaded" /\ exc' = "none"

LoadTemplate ==
    /\ pc = "start"
    /\ Loaded(Opening(base_json_path, images_root),
              Load(<<>>, ReadFile(fs, base_json_path).json))
    /\ UNCHANGED <<fs, fs0, cfg, ids, idx, run_lines, IDS, ok, missing>>

\* Lines 165-170
\* Lines 165-170 on the listing l
Listed(l) ==
    IF l.exc # "none"
    THEN /\ pc' = "raised" /\ exc' = l.exc
         /\ UNCHANGED <<ids, idx, run_lines>>
    ELSE /\ ids' = l.ids
         /\ exc' = "none"
         /\ IF l.ids = <<>>
            THEN pc' = "done" /\ UNCHANGED <<idx, run_lines>>
            ELSE pc' = "loop" /\ idx' = 1 /\ run_lines' = <<>>

ListIds ==
    /\ pc = "loaded"
    /\ Listed(list_ids(fs, images_root))
    /\ UNCHANGED <<fs, fs0, heap, base_cfg, cfg, classes, class_colors, IDS, ok, missing>>

\* A scene without rgb.tif that ends the loop.
SkipScene_Break ==
    /\ pc = "loop" /\ idx <= Len(ids)
    /\ ~Exists(fs, Append(SrcDir(images_root, ids[idx]), "rgb.tif"))
    /\ idx' = Len(ids) + 1
    /\ UNCHANGED <<fs, fs0, pc, exc, heap, base_cfg, cfg, classes, class_colors, ids,
                   run_lines, IDS, ok, missing>>

\* Lines 173-177: no rgb.tif -> skip
SkipScene ==
    /\ pc = "loop" /\ idx <= Len(ids)
    /\ ~Exists(fs, Append(SrcDir(images_root, ids[idx]), "rgb.tif"))
    /\ idx' = idx + 1
    /\ UNCHANGED <<fs, fs0, pc, exc, heap, base_cfg, cfg, classes, class_colors, ids,
                   run_lines, IDS, ok, missing>>

\* Lines 180-206 on the tree f: the project's images directory filled and the
\* source's rgb.npy removed
ProjectImages(f, id_name, id_src_dir, proj_dir) ==
    remove_source_rgb_npy_after(
        WriteMetadataAfter(
            write_rgb_npy_to_dest_after(
                safe_make_clean_dest_dir_after(
                    ThenMkdirs(IF IsFile(f, Append(id_src_dir, "rgb.tif"))
                               THEN Ok(f) ELSE Raise(f, "RasterioIOError"),
                               proj_dir),
                    proj_dir \o <<"images", id_name>>),
                Append(id_src_dir, "rgb.tif"), proj_dir \o <<"images", id_name, "rgb.npy">>),
            proj_dir \o <<"images", id_name>>, id_name, Append(id_src_dir, "rgb.tif")),
        id_src_dir)

\* Lines 217-223 on the tree f: the configuration written, then the caches
ProjectConfig(f, id_name, id_src_dir, proj_dir, doc) ==
    BuildCachesFromMaskAfter(
        IF OVERWRITE_JSON \/ ~Exists(f, Append(proj_dir, id_name \o ".json"))
        THEN WriteFile(f, Append(proj_dir, id_name \o ".json"), [json |-> doc])
        ELSE Ok(f),
        id_src_dir, proj_dir, id_name)

\* Line 225 and the next scene, or the exception that ends the run
SceneDone(r, h, c, proj_json) ==
    /\ fs' = r.f /\ exc' = r.exc
    /\ heap' = h /\ cfg' = c
    /\ IF r.exc # "none"
       THEN pc' = "raised" /\ UNCHANGED <<run_lines, idx>>
       ELSE /\ pc' = pc
            /\ run_lines' = Append(run_lines, RunLine(proj_json))
            /\ idx' = idx + 1

\* Lines 209-225 after lines 180-206 gave r: c the copy of the template, inj
\* the fields injected in it
SceneConfigured(r, c, inj, id_name, id_src_dir, proj_dir) ==
    IF r.exc # "none"
    THEN /\ fs' = r.f /\ exc' = r.exc /\ pc' = "raised"
         /\ UNCHANGED <<heap, cfg, run_lines, idx>>
    ELSE IF inj.exc # "none"
    THEN /\ fs' = r.f /\ exc' = inj.exc /\ pc' = "raised"
         /\ heap' = inj.heap /\ cfg' = c.root
         /\ UNCHANGED <<run_lines, idx>>
    ELSE SceneDone(ProjectConfig(r.f, id_name, id_src_dir, proj_dir, Dump(inj.heap, c.root)),
                   inj.heap, c.root, Append(proj_dir, id_name \o ".json"))

\* Lines 211-215 on the copy c, WH the raster's (W, H)
SceneCopied(r, c, WH, id_name, id_src_dir, proj_dir) ==
    SceneConfigured(r, c, InjectFields(c.heap, c.root, id_name, WH[1], WH[2]),
                    id_name, id_src_dir, proj_dir)

\* Lines 180-225 for one scene
SceneAt(id_name, id_src_dir, proj_dir) ==
    SceneCopied(ProjectImages(fs, id_name, id_src_dir, proj_dir),
                DeepCopy(Collect(heap, {base_cfg}), base_cfg),
                get_width_height_from_tif(fs, Append(id_src_dir, "rgb.tif")),
                id_name, id_src_dir, proj_dir)

\* Lines 173-225: one scene with an rgb.tif.  An exception ends the run with
\* what was written before it.
ProcessScene ==
    /\ pc = "loop" /\ idx <= Len(ids)
    /\ Exists(fs, Append(SrcDir(images_root, ids[idx]), "rgb.tif"))
    /\ SceneAt(ids[idx], SrcDir(images_root, ids[idx]), ProjDir(base_json_path, ids[idx]))
    /\ UNCHANGED <<fs0, base_cfg, classes, class_colors, ids, IDS, ok, missing>>

LauncherHeader == <<"#!/usr/bin/env bash", "set -e", "">>

\* Lines 228-233: run_all_projects.sh beside the resolved base.json
WriteLauncher ==
    /\ pc = "loop" /\ idx > Len(ids)
    /\ Returns(WriteFile(fs, RunSh(base_json_path),
                         [sh |-> LauncherHeader \o run_lines, mode |-> "755"]),
               "done", "raised")
    /\ UNCHANGED <<fs0, heap, base_cfg, cfg, classes, class_colors, ids, idx, run_lines,
                   IDS, ok, missing>>

Next == LoadTemplate \/ ListIds \/ SkipScene \/ ProcessScene \/ WriteLauncher

Spec == Init /\ [][Next]_vars

(***************************************************************************)
(* Properties of create_projects_per_id (specification Spec).              *)
(***************************************************************************)
\* A scene's source and project directories in this run.
Src(n) == SrcDir(images_root, n)
Proj(n) == ProjDir(base_json_path, n)
Cfg(n) == ProjJson(base_json_path, n)

\* The scene directories of the run and what their sources held at the start.
SceneDirs == {n \in SceneNames : IsDir(fs0, Src(n))}
RgbTif(n) == Append(Src(n), "rgb.tif")
HasTif(n) == Exists(fs0, RgbTif(n))
TifOf(n) == ReadFile(fs0, RgbTif(n)).tif
HasMask(n) == Exists(fs0, Append(Src(n), MASK_TIF_NAME))

\* The scenes the loop has gone through.
Visited ==
    IF pc \in {"loop", "done", "raised"} /\ idx > 0 THEN {ids[i] : i \in 1..(idx - 1)} ELSE {}
Configured == {n \in Visited : HasTif(n)}

Template0 == ReadFile(fs0, base_json_path).json
CfgDoc(n) == ReadFile(fs, Cfg(n)).json
Field(doc, k) == Get(doc.o, k)

\* C4: the per-scene configuration is an independent copy: the loaded
\* template (nested objects and class table included) stays as loaded however
\* many scenes are processed, no object of a scene's configuration is shared
\* with the template, and each written configuration holds its own scene's
\* name, shape and mask area.
C4_TemplateIndependent ==
    (pc \in {"loaded", "loop", "done", "raised"} /\ base_cfg # 0) =>
        /\ Dump(heap, base_cfg) = Template0
        /\ cfg # 0 => Reach(heap, {base_cfg}) \cap Reach(heap, {cfg}) = {}
        /\ \A n \in Configured :
              /\ Field(CfgDoc(n), "name") = JStr(n)
              /\ Field(Field(CfgDoc(n), "images"), "shape") = JList(<<TifOf(n).w, TifOf(n).h>>)
              /\ Field(Field(CfgDoc(n), "segmentation"), "mask_area")
                    = JList(<<0, 0, TifOf(n).w, TifOf(n).h>>)

C4_Witness ==
    /\ pc = "done"
    /\ Cardinality(Configured) >= 2
    /\ \E a, b \in Configured : TifOf(a) = TifA /\ TifOf(b) = TifB
    /\ Has(Template0.o, "segmentation")
    /\ Dump(heap, base_cfg) = Template0

\* The fields of a written configuration other than the image path.
CfgAsTemplate(n, path) ==
    LET doc == CfgDoc(n)
        images == Field(doc, "images")
        seg == Field(doc, "segmentation")
        W == TifOf(n).w
        H == TifOf(n).h
    IN /\ Exists(fs, Cfg(n))
       /\ Field(doc, "name") = JStr(n)
       /\ Field(images, "path") = JStr(path)
       /\ Field(images, "shape") = JList(<<W, H>>)
       /\ Field(seg, "mask_area") = JList(<<0, 0, W, H>>)
       /\ Keys(doc.o) = Keys(Template0.o) \cup {"segmentation"}
       /\ \A k \in Keys(Template0.o) \ {"name", "images", "segmentation"} :
             Field(doc, k) = Field(Template0, k)
       /\ Keys(images.o) = Keys(Field(Template0, "images").o) \cup {"path", "shape"}
       /\ \A k \in Keys(images.o) \ {"path", "shape"} :
             Field(images, k) = Field(Field(Template0, "images"), k)
       /\ IF Has(Template0.o, "segmentation")
          THEN /\ Keys(seg.o) = Keys(Field(Template0, "segmentation").o) \cup {"mask_area"}
               /\ \A k \in Keys(seg.o) \ {"mask_area"} :
                     Field(seg, k) = Field(Field(Template0, "segmentation"), k)
          ELSE Keys(seg.o) = {"mask_area"}

\* C6 as stated: the written image path is the path template with the scene
\* ID filled in.
C6_PathInstantiated ==
    \A n \in Configured : CfgAsTemplate(n, ImagePath_Instantiated(n))

\* C6, amended: <ID>.json has the scene's name, shape [W, H], mask area
\* [0, 0, W, H] and the template's other fields; its image path is the
\* literal pattern "images/{id}/rgb.npy", the placeholder left as it is.
C6_ConfigFields ==
    \A n \in Configured : CfgAsTemplate(n, "images/{id}/rgb.npy")

C6_Witness ==
    /\ pc = "done"
    /\ \E a, b \in Configured :
          /\ TifOf(a) = TifA /\ TifOf(b) = TifB
          /\ Field(Field(CfgDoc(a), "images"), "shape") = JList(<<2, 1>>)
          /\ Field(Field(CfgDoc(b), "images"), "shape") = JList(<<1, 2>>)
          /\ Field(Field(CfgDoc(a), "images"), "path") = Field(Field(CfgDoc(b), "images"), "path")

ImagesIdDir(n) == Proj(n) \o <<"images", n>>
MetadataFile(n) == Append(ImagesIdDir(n), "metadata.json")
SceneCache(n, f) == Append(SegDir(Proj(n), n, Src(n)), f)
CacheNames == {"1_final.npy", "1_user.npy", "mask.png"}

\* C7 as stated: after the run, from any output tree, metadata.json exists
\* only if the raster had a coordinate system and the three cache files
\* exist only if the mask raster exists.
C7_OptionalOutputsOnlyIfCondition ==
    pc = "done" =>
        \A n \in Configured :
            /\ Exists(fs, MetadataFile(n)) => TifOf(n).crs
            /\ \A c \in CacheNames : Exists(fs, SceneCache(n, c)) => HasMask(n)

\* C7, amended: after the run, an optional output that was not there before
\* the run exists only if its condition held in this run.
C7_NewOptionalOutputs ==
    pc = "done" =>
        \A n \in Configured :
            /\ (Exists(fs, MetadataFile(n)) /\ ~Exists(fs0, MetadataFile(n))) => TifOf(n).crs
            /\ \A c \in CacheNames :
                  (Exists(fs, SceneCache(n, c)) /\ ~Exists(fs0, SceneCache(n, c))) => HasMask(n)

C7_Witness ==
    /\ pc = "done"
    /\ \E a, b \in Configured :
          /\ TifOf(a).crs /\ HasMask(a) /\ Node(fs0, Proj(a)).k = "none"
          /\ Exists(fs, MetadataFile(a)) /\ Exists(fs, SceneCache(a, "mask.png"))
          /\ ReadFile(fs, MetadataFile(a)).json.location[2] = [num |-> 23, den |-> 2]
          /\ ~TifOf(b).crs /\ ~HasMask(b) /\ Node(fs0, Proj(b)).k = "none"
          /\ ~Exists(fs, MetadataFile(b)) /\ ~Exists(fs, SceneCache(b, "1_final.npy"))

Under(p, dir) == Len(p) > Len(dir) /\ SubSeq(p, 1, Len(dir)) = dir

\* C8: whatever links earlier runs left on the destination path, a processed
\* scene has a real file rgb.npy in <project-root>/<ID>/images/<ID>/, no
\* rgb.npy in its source directory, and no other file of the source directory
\* written or removed.
C8_SourceDestIsolated ==
    \A n \in Configured :
        LET S == Src(n)
        IN /\ Node(fs, Append(ImagesIdDir(n), "rgb.npy")).k = "file"
           /\ ~Exists(fs, Append(S, "rgb.npy"))
           /\ \A p \in (DOMAIN fs \cup DOMAIN fs0) \ {Append(S, "rgb.npy")} :
                 Under(p, S) => Node(fs, p) = Node(fs0, p)

\* The lines of run_all_projects.sh after the header.
Launcher == ReadFile(fs, RunSh(base_json_path)).sh
LauncherLines == SubSeq(Launcher, Len(LauncherHeader) + 1, Len(Launcher))

\* C9: a scene directory without rgb.tif gets no output and does not stop the
\* run: the scenes after it are processed, and run_all_projects.sh holds one
\* line for each scene with an rgb.tif, in sorted ID order, and no other.
C9_SkipAndLauncher ==
    /\ \A n \in Visited \ Configured :
          LET P == Proj(n)
              S == Src(n)
          IN \A p \in DOMAIN fs \cup DOMAIN fs0 :
                (Under(p, P) \/ p = P \/ Under(p, S)) => Node(fs, p) = Node(fs0, p)
    /\ (pc = "done" /\ SceneDirs # {}) =>
          /\ Visited = SceneDirs
          /\ \A n \in SceneDirs : HasTif(n) =>
                Exists(fs, Cfg(n)) /\ Field(CfgDoc(n), "name") = JStr(n)
          /\ Exists(fs, RunSh(base_json_path))
          /\ SubSeq(Launcher, 1, Len(LauncherHeader)) = LauncherHeader
          /\ Len(LauncherLines) = Cardinality({n \in SceneDirs : HasTif(n)})
          /\ \A n \in SceneDirs : HasTif(n) =>
                \E i \in DOMAIN LauncherLines : LauncherLines[i] = RunLine(Cfg(n))
          /\ \A i \in 1..(Len(LauncherLines) - 1) :
                \E a, b \in SceneDirs :
                    /\ LauncherLines[i] = RunLine(Cfg(a))
                    /\ LauncherLines[i + 1] = RunLine(Cfg(b))
                    /\ LexLess(Code(a), Code(b))

C9_Witness ==
    /\ pc = "done"
    /\ ids = <<"V10", "V2">>
    /\ ~HasTif("V10") /\ HasTif("V2")
    /\ Node(fs, Proj("V10")).k = "none"
    /\ LauncherLines = <<"iris label <base>/spot/V2/V2.json">>

====
